---- MODULE Spec2Model ----
\* Model of Editor/BlenderScripts/apply_costume.py: the script that imports an
\* avatar and a costume, renames the costume's bones and vertex groups after a
\* bone mapping, rebinds the costume meshes to the avatar armature and exports.
\*
\* Attribute assignments (bone.name = ..., vgroup.name = ..., modifier.object = ...)
\* are modelled as the plain assignments the script writes.  Weights are in tenths
\* (10 = 1.0); every mesh carries one vertex, whose weight in each of the mesh's
\* vertex groups is stored with the group.
EXTENDS Integers, Sequences, FiniteSets, TLC

\* ---------------------------------------------------------------- bounds
MaxMeshes == 2
MaxEntries == 2

\* ---------------------------------------------------------------- names
None == "None"

AvatarBoneNames == <<"Hip", "Leg">>
CostumeBoneNames == <<"Hip", "LegUpper", "LegLower">>
MeshNames == <<"Mesh1", "Mesh2", "Mesh3">>

Range(f) == {f[x] : x \in DOMAIN f}

NoObjects == [o \in {} |-> None]

\* One scene object: the attributes of a bpy object the script reads or writes.
Object(type, bones, scale, parent, modifiers, vertex_groups) ==
  [type |-> type, bones |-> bones, scale |-> scale, location |-> "authored",
   parent |-> parent, modifiers |-> modifiers, vertex_groups |-> vertex_groups]

Modifier(type, object) == [type |-> type, object |-> object]

VGroup(name, weight) == [name |-> name, weight |-> weight]

\* ---------------------------------------------------------------- inputs
\* Avatar files: nothing importable, a body mesh alone, an armature with a body.
AvatarArmatureObject == Object("ARMATURE", AvatarBoneNames, 1, None, <<>>, <<>>)

AvatarBodyObject(parent) ==
  Object("MESH", <<>>, 1, parent,
         IF parent = None THEN <<>> ELSE <<Modifier("ARMATURE", parent)>>,
         <<VGroup("Hip", 10)>>)

AvatarFiles ==
  { NoObjects,
    [o \in {"AvatarBody"} |-> AvatarBodyObject(None)],
    [o \in {"AvatarArmature", "AvatarBody"} |->
       IF o = "AvatarArmature" THEN AvatarArmatureObject
       ELSE AvatarBodyObject("AvatarArmature")] }

\* Costume meshes as they come out of the importer, given the armature (or None)
\* of the same file.
MeshKinds(arm) ==
  { Object("MESH", <<>>, 1, arm, <<Modifier("ARMATURE", arm)>>,
           <<VGroup("LegUpper", 4), VGroup("LegLower", 6)>>),
    Object("MESH", <<>>, 3, arm, <<>>,
           <<VGroup("LegLower", 10)>>),
    Object("MESH", <<>>, 3, arm, <<Modifier("SUBSURF", None), Modifier("ARMATURE", arm)>>,
           <<VGroup("Hip", 5), VGroup("LegUpper", 5)>>) }

CostumeArmatureObject == Object("ARMATURE", CostumeBoneNames, 3, None, <<>>, <<>>)

CostumeEmptyObject == Object("EMPTY", <<>>, 1, None, <<>>, <<>>)

MeshCounts == {k \in 0..MaxMeshes : k <= Len(MeshNames)}

\* Costume files: nothing importable, or an empty object together with an
\* optional armature and up to MaxMeshes meshes.
CostumeFiles ==
  { NoObjects } \cup
  UNION { UNION { { [o \in ({"CostumeEmpty"} \cup (IF hasArm THEN {"CostumeArmature"} ELSE {})
                             \cup {MeshNames[i] : i \in 1..k}) |->
                      IF o = "CostumeEmpty" THEN CostumeEmptyObject
                      ELSE IF o = "CostumeArmature" THEN CostumeArmatureObject
                      ELSE kinds[CHOOSE i \in 1..k : MeshNames[i] = o]]
                    : kinds \in [1..k -> MeshKinds(IF hasArm THEN "CostumeArmature" ELSE None)] }
                  : k \in MeshCounts }
          : hasArm \in BOOLEAN }

\* Mapping entries: costume bone -> avatar bone (many-to-one, chained and swapped
\* pairs are all expressible), and one entry that lacks its avatarBoneId.
MappingEntries ==
  { [costumeBoneId |-> "LegUpper", avatarBoneId |-> "Leg"],
    [costumeBoneId |-> "LegLower", avatarBoneId |-> "Leg"],
    [costumeBoneId |-> "LegUpper", avatarBoneId |-> "LegLower"],
    [costumeBoneId |-> "LegLower", avatarBoneId |-> "LegUpper"] }

MalformedEntry == [costumeBoneId |-> "LegUpper"]

EntryLists == UNION { [1..n -> MappingEntries] : n \in 0..MaxEntries }

MappingFiles ==
  { [boneMapping |-> l] : l \in EntryLists } \cup
  { [boneMapping |-> <<MalformedEntry, [costumeBoneId |-> "LegLower", avatarBoneId |-> "Leg"]>>],
    [version |-> 1] }

GlobalScales == {1, 2}

\* Settings files: every recognized key present, or none of them (the defaults).
SettingsFiles ==
  { [globalScale |-> g, adjustScale |-> a, redistributeWeights |-> r]
      : g \in GlobalScales, a \in BOOLEAN, r \in BOOLEAN } \cup
  { [unrecognized |-> TRUE] }

\* ---------------------------------------------------------------- state
VARIABLES pc, data, selected_objects, active,
          avatar_objects, avatar_armature,
          costume_objects, costume_armature, costume_meshes,
          mapping_data, settings, bone_mapping,
          global_scale, adjust_scale, redistribute_weights,
          mesh_idx, avatar_file, costume_file, result_file

vars == <<pc, data, selected_objects, active, avatar_objects, avatar_armature,
          costume_objects, costume_armature, costume_meshes, mapping_data, settings,
          bone_mapping, global_scale, adjust_scale, redistribute_weights,
          mesh_idx, avatar_file, costume_file, result_file>>

State ==
  [pc |-> pc, data |-> data, selected_objects |-> selected_objects, active |-> active,
   avatar_objects |-> avatar_objects, avatar_armature |-> avatar_armature,
   costume_objects |-> costume_objects, costume_armature |-> costume_armature,
   costume_meshes |-> costume_meshes, mapping_data |-> mapping_data,
   settings |-> settings, bone_mapping |-> bone_mapping,
   global_scale |-> global_scale, adjust_scale |-> adjust_scale,
   redistribute_weights |-> redistribute_weights, mesh_idx |-> mesh_idx,
   avatar_file |-> avatar_file, costume_file |-> costume_file,
   result_file |-> result_file]

Commit(s) ==
  /\ pc' = s.pc
  /\ data' = s.data
  /\ selected_objects' = s.selected_objects
  /\ active' = s.active
  /\ avatar_objects' = s.avatar_objects
  /\ avatar_armature' = s.avatar_armature
  /\ costume_objects' = s.costume_objects
  /\ costume_armature' = s.costume_armature
  /\ costume_meshes' = s.costume_meshes
  /\ mapping_data' = s.mapping_data
  /\ settings' = s.settings
  /\ bone_mapping' = s.bone_mapping
  /\ global_scale' = s.global_scale
  /\ adjust_scale' = s.adjust_scale
  /\ redistribute_weights' = s.redistribute_weights
  /\ mesh_idx' = s.mesh_idx
  /\ avatar_file' = s.avatar_file
  /\ costume_file' = s.costume_file
  /\ result_file' = s.result_file

\* The scene after read_factory_settings(use_empty=True) and the removal loop.
Init ==
  /\ pc = "import_avatar"
  /\ data = NoObjects
  /\ selected_objects = {}
  /\ active = None
  /\ avatar_objects = {}
  /\ avatar_armature = None
  /\ costume_objects = {}
  /\ costume_armature = None
  /\ costume_meshes = <<>>
  /\ mapping_data = [version |-> 0]
  /\ settings = [unrecognized |-> FALSE]
  /\ bone_mapping = NoObjects
  /\ global_scale = 1
  /\ adjust_scale = TRUE
  /\ redistribute_weights = TRUE
  /\ mesh_idx = 1
  /\ avatar_file = NoObjects
  /\ costume_file = NoObjects
  /\ result_file = <<>>

\* ---------------------------------------------------------------- helpers
Get(d, key, default) == IF key \in DOMAIN d THEN d[key] ELSE default

Restrict(f, S) == [x \in S |-> f[x]]

ObjectsOfType(s, objs, type) == {o \in objs : s.data[o].type = type}

\* The armature a loop over objs leaves in its variable (the files hold at most one).
FoundArmature(s, objs) ==
  IF ObjectsOfType(s, objs, "ARMATURE") = {} THEN None
  ELSE CHOOSE o \in ObjectsOfType(s, objs, "ARMATURE") : TRUE

\* costume_meshes, in the importer's object order.
FoundMeshes(s, objs) ==
  SelectSeq(MeshNames, LAMBDA m : m \in ObjectsOfType(s, objs, "MESH"))

\* bone_mapping = {}; for mapping in boneMapping: bone_mapping[c] = a (later wins).
RECURSIVE BuildBoneMapping(_, _, _)
BuildBoneMapping(entries, i, acc) ==
  IF i > Len(entries) THEN acc
  ELSE LET mapping == entries[i] IN
       IF "avatarBoneId" \in DOMAIN mapping /\ "costumeBoneId" \in DOMAIN mapping
       THEN BuildBoneMapping(entries, i + 1,
              [k \in DOMAIN acc \cup {mapping.costumeBoneId} |->
                 IF k = mapping.costumeBoneId THEN mapping.avatarBoneId ELSE acc[k]])
       ELSE BuildBoneMapping(entries, i + 1, acc)

\* for bone in bones: if bone.name in bone_mapping: bone.name = bone_mapping[bone.name]
RECURSIVE RenameBonesFrom(_, _, _)
RenameBonesFrom(bones, mapping, i) ==
  IF i > Len(bones) THEN bones
  ELSE RenameBonesFrom(
         IF bones[i] \in DOMAIN mapping THEN [bones EXCEPT ![i] = mapping[bones[i]]]
         ELSE bones,
         mapping, i + 1)

\* Variant: a renamed group is looked up again, so a chained entry applies twice.
RenameGroupsFrom_Chained(groups, mapping, i) ==
  [j \in DOMAIN groups |->
     LET once == IF groups[j].name \in DOMAIN mapping THEN mapping[groups[j].name]
                 ELSE groups[j].name
     IN [groups[j] EXCEPT !.name = IF once \in DOMAIN mapping THEN mapping[once] ELSE once]]

\* for vgroup in vertex_groups: if vgroup.name in bone_mapping: vgroup.name = ...
RECURSIVE RenameGroupsFrom(_, _, _)
RenameGroupsFrom(groups, mapping, i) ==
  IF i > Len(groups) THEN groups
  ELSE RenameGroupsFrom(
         IF groups[i].name \in DOMAIN mapping
         THEN [groups EXCEPT ![i].name = mapping[groups[i].name]]
         ELSE groups,
         mapping, i + 1)

\* for modifier in modifiers: if ARMATURE and costume_armature: object = avatar_armature
SwitchModifiers(modifiers, costume_arm, avatar_arm) ==
  [i \in DOMAIN modifiers |->
     IF modifiers[i].type = "ARMATURE" /\ costume_arm # None
     THEN [modifiers[i] EXCEPT !.object = avatar_arm]
     ELSE modifiers[i]]

\* Variant: the scale is assigned whenever adjust_scale is set.
ScaleApplies_AnyScale(adjust, scale) == adjust

\* if adjust_scale and global_scale != 1.0
ScaleApplies(adjust, scale) == adjust /\ scale # 1

\* Where the mesh loop stands with index i: in its body, or past it.
LoopPc(s, i) == IF i <= Len(s.costume_meshes) THEN "mesh_modifiers" ELSE "position"

CurrentMesh(s) == s.costume_meshes[s.mesh_idx]

\* ---------------------------------------------------------------- steps
\* Each step is the state after one block of the script, from the state before it.

DoImportAvatar(s, file) ==
  IF DOMAIN file = {} THEN [s EXCEPT !.pc = "exit"]
  ELSE [s EXCEPT !.data = file,
                 !.avatar_file = file,
                 !.selected_objects = DOMAIN file,
                 !.avatar_objects = DOMAIN file,
                 !.pc = "find_avatar_armature"]

DoFindAvatarArmature(s) ==
  LET arm == FoundArmature(s, s.avatar_objects) IN
  IF arm = None THEN [s EXCEPT !.pc = "exit"]
  ELSE [s EXCEPT !.avatar_armature = arm, !.pc = "import_costume"]

DoImportCostume(s, file) ==
  LET selected == DOMAIN file
      found == {o \in selected : o \notin s.avatar_objects} IN
  [s EXCEPT !.data = [o \in DOMAIN s.data \cup DOMAIN file |->
                        IF o \in DOMAIN file THEN file[o] ELSE s.data[o]],
            !.selected_objects = selected,
            !.costume_objects = found,
            !.costume_file = file,
            !.pc = IF found = {} THEN "exit" ELSE "find_costume"]

\* Variant: the costume is accepted whatever it holds.
DoFindCostume_NoAbort(s) ==
  [s EXCEPT !.costume_armature = FoundArmature(s, s.costume_objects),
            !.costume_meshes = FoundMeshes(s, s.costume_objects),
            !.pc = "load"]

DoFindCostume(s) ==
  LET arm == FoundArmature(s, s.costume_objects)
      meshes == FoundMeshes(s, s.costume_objects) IN
  [s EXCEPT !.costume_armature = arm,
            !.costume_meshes = meshes,
            !.pc = IF arm = None /\ meshes = <<>> THEN "exit" ELSE "load"]

DoLoad(s, mapping_json, settings_json) ==
  [s EXCEPT !.mapping_data = mapping_json,
            !.settings = settings_json,
            !.pc = "process_mapping"]

DoProcessMapping(s) ==
  [s EXCEPT !.bone_mapping =
               IF "boneMapping" \in DOMAIN s.mapping_data
               THEN BuildBoneMapping(s.mapping_data.boneMapping, 1, NoObjects)
               ELSE NoObjects,
            !.global_scale = Get(s.settings, "globalScale", 1),
            !.adjust_scale = Get(s.settings, "adjustScale", TRUE),
            !.redistribute_weights = Get(s.settings, "redistributeWeights", TRUE),
            !.pc = "costume_armature"]

DoRenameBones(s) ==
  IF s.costume_armature = None THEN [s EXCEPT !.pc = LoopPc(s, 1)]
  ELSE [s EXCEPT !.data[s.costume_armature].bones =
                    RenameBonesFrom(@, s.bone_mapping, 1),
                 !.pc = "scale_armature"]

DoScaleArmature(s) ==
  [s EXCEPT !.data[s.costume_armature].scale =
               IF ScaleApplies(s.adjust_scale, s.global_scale) THEN s.global_scale ELSE @,
            !.pc = LoopPc(s, 1)]

\* Variant: the mesh is parented to the avatar before its groups are renamed.
DoMeshModifiers_ParentFirst(s) ==
  [s EXCEPT !.data[CurrentMesh(s)].modifiers =
               SwitchModifiers(@, s.costume_armature, s.avatar_armature),
            !.data[CurrentMesh(s)].parent = s.avatar_armature,
            !.pc = "mesh_vertex_groups"]

DoMeshModifiers(s) ==
  [s EXCEPT !.data[CurrentMesh(s)].modifiers =
               SwitchModifiers(@, s.costume_armature, s.avatar_armature),
            !.pc = "mesh_vertex_groups"]

\* Variant: groups of unmapped bones are removed, and their weights with them.
DoMeshVertexGroups_DropUnmapped(s) ==
  [s EXCEPT !.data[CurrentMesh(s)].vertex_groups =
               IF s.costume_armature # None /\ s.avatar_armature # None
               THEN RenameGroupsFrom(
                      SelectSeq(@, LAMBDA g : g.name \in DOMAIN s.bone_mapping),
                      s.bone_mapping, 1)
               ELSE @,
            !.pc = "mesh_parent"]

DoMeshVertexGroups(s) ==
  [s EXCEPT !.data[CurrentMesh(s)].vertex_groups =
               IF s.costume_armature # None /\ s.avatar_armature # None
               THEN RenameGroupsFrom(@, s.bone_mapping, 1)
               ELSE @,
            !.pc = "mesh_parent"]

DoMeshParent(s) ==
  [s EXCEPT !.data[CurrentMesh(s)].parent = s.avatar_armature,
            !.pc = "mesh_scale"]

DoMeshScale(s) ==
  [s EXCEPT !.data[CurrentMesh(s)].scale =
               IF ScaleApplies(s.adjust_scale, s.global_scale) THEN s.global_scale ELSE @,
            !.mesh_idx = @ + 1,
            !.pc = LoopPc(s, s.mesh_idx + 1)]

DoPosition(s) ==
  [s EXCEPT !.data = [o \in DOMAIN s.data |->
                        IF o \in Range(s.costume_meshes)
                        THEN [s.data[o] EXCEPT !.location = "origin"]
                        ELSE s.data[o]],
            !.pc = "remove_costume_armature"]

DoRemoveCostumeArmature(s) ==
  [s EXCEPT !.data = IF s.costume_armature # None
                     THEN Restrict(@, DOMAIN @ \ {s.costume_armature})
                     ELSE @,
            !.pc = "select"]

\* Variant: every object of the scene is selected.
DoSelect_Everything(s) ==
  [s EXCEPT !.selected_objects = DOMAIN s.data,
            !.active = s.avatar_armature,
            !.pc = "export"]

\* export_objects = [avatar_armature] + costume_meshes; select_set(obj in export_objects)
DoSelect(s) ==
  LET export_objects == {s.avatar_armature} \cup Range(s.costume_meshes) IN
  [s EXCEPT !.selected_objects = {o \in DOMAIN s.data : o \in export_objects},
            !.active = s.avatar_armature,
            !.pc = "export"]

\* export_scene.fbx(use_selection=True, object_types={'ARMATURE', 'MESH'}):
\* result_file is <<>> until the file is written, then holds the exported objects.
DoExport(s) ==
  [s EXCEPT !.result_file =
               <<Restrict(s.data, {o \in s.selected_objects :
                                     s.data[o].type \in {"ARMATURE", "MESH"}})>>,
            !.pc = "done"]

\* ---------------------------------------------------------------- actions
ImportAvatar ==
  /\ pc = "import_avatar"
  /\ \E file \in AvatarFiles : Commit(DoImportAvatar(State, file))

ImportAvatarError ==
  /\ pc = "import_avatar"
  /\ Commit([State EXCEPT !.pc = "exit"])

FindAvatarArmature ==
  /\ pc = "find_avatar_armature"
  /\ Commit(DoFindAvatarArmature(State))

ImportCostume ==
  /\ pc = "import_costume"
  /\ \E file \in CostumeFiles : Commit(DoImportCostume(State, file))

ImportCostumeError ==
  /\ pc = "import_costume"
  /\ Commit([State EXCEPT !.pc = "exit"])

FindCostume ==
  /\ pc = "find_costume"
  /\ Commit(DoFindCostume(State))

Load ==
  /\ pc = "load"
  /\ \E m \in MappingFiles, st \in SettingsFiles : Commit(DoLoad(State, m, st))

LoadError ==
  /\ pc = "load"
  /\ Commit([State EXCEPT !.pc = "exit"])

ProcessMapping ==
  /\ pc = "process_mapping"
  /\ Commit(DoProcessMapping(State))

RenameBones ==
  /\ pc = "costume_armature"
  /\ Commit(DoRenameBones(State))

ScaleArmature ==
  /\ pc = "scale_armature"
  /\ Commit(DoScaleArmature(State))

MeshModifiers ==
  /\ pc = "mesh_modifiers"
  /\ Commit(DoMeshModifiers(State))

MeshVertexGroups ==
  /\ pc = "mesh_vertex_groups"
  /\ Commit(DoMeshVertexGroups(State))

MeshParent ==
  /\ pc = "mesh_parent"
  /\ Commit(DoMeshParent(State))

MeshScale ==
  /\ pc = "mesh_scale"
  /\ Commit(DoMeshScale(State))

Position ==
  /\ pc = "position"
  /\ Commit(DoPosition(State))

RemoveCostumeArmature ==
  /\ pc = "remove_costume_armature"
  /\ Commit(DoRemoveCostumeArmature(State))

Select ==
  /\ pc = "select"
  /\ Commit(DoSelect(State))

Export ==
  /\ pc = "export"
  /\ Commit(DoExport(State))

ExportError ==
  /\ pc = "export"
  /\ Commit([State EXCEPT !.pc = "export_failed"])

Next ==
  \/ ImportAvatar
  \/ ImportAvatarError
  \/ FindAvatarArmature
  \/ ImportCostume
  \/ ImportCostumeError
  \/ FindCostume
  \/ Load
  \/ LoadError
  \/ ProcessMapping
  \/ RenameBones
  \/ ScaleArmature
  \/ MeshModifiers
  \/ MeshVertexGroups
  \/ MeshParent
  \/ MeshScale
  \/ Position
  \/ RemoveCostumeArmature
  \/ Select
  \/ Export
  \/ ExportError

Spec == Init /\ [][Next]_vars

\* ---------------------------------------------------------------- whole run
\* The block the script executes at each position, and the state the script ends
\* in when started from s and no file operation raises.
StepOf(s) ==
  CASE s.pc = "find_avatar_armature" -> DoFindAvatarArmature(s)
    [] s.pc = "find_costume" -> DoFindCostume(s)
    [] s.pc = "process_mapping" -> DoProcessMapping(s)
    [] s.pc = "costume_armature" -> DoRenameBones(s)
    [] s.pc = "scale_armature" -> DoScaleArmature(s)
    [] s.pc = "mesh_modifiers" -> DoMeshModifiers(s)
    [] s.pc = "mesh_vertex_groups" -> DoMeshVertexGroups(s)
    [] s.pc = "mesh_parent" -> DoMeshParent(s)
    [] s.pc = "mesh_scale" -> DoMeshScale(s)
    [] s.pc = "position" -> DoPosition(s)
    [] s.pc = "remove_costume_armature" -> DoRemoveCostumeArmature(s)
    [] s.pc = "select" -> DoSelect(s)
    [] s.pc = "export" -> DoExport(s)

RECURSIVE Run(_)
Run(s) == IF s.pc \in {"done", "exit", "export_failed"} THEN s ELSE Run(StepOf(s))

\* ---------------------------------------------------------------- vocabulary
PcOrder ==
  <<"import_avatar", "find_avatar_armature", "import_costume", "find_costume", "load",
    "process_mapping", "costume_armature", "scale_armature",
    "mesh_modifiers", "mesh_vertex_groups", "mesh_parent", "mesh_scale",
    "position", "remove_costume_armature", "select", "export", "done">>

Rank(p) == CHOOSE i \in DOMAIN PcOrder : PcOrder[i] = p

\* The run has at least reached position p (an aborted run has reached nothing;
\* a failed export has reached the export).
Reached(p) ==
  IF pc = "exit" THEN FALSE
  ELSE IF pc = "export_failed" THEN Rank(p) <= Rank("export")
  ELSE Rank(pc) >= Rank(p)

InMeshLoop == pc \in {"mesh_modifiers", "mesh_vertex_groups", "mesh_parent", "mesh_scale"}

MeshIndices == DOMAIN costume_meshes

\* The block at position p of the mesh loop's body has been executed for mesh j.
BodyDone(j, p) ==
  \/ Reached("position")
  \/ /\ InMeshLoop
     /\ \/ j < mesh_idx
        \/ j = mesh_idx /\ Rank(pc) > Rank(p)

Mesh(j) == data[costume_meshes[j]]

AuthoredMesh(j) == costume_file[costume_meshes[j]]

AvatarSkeleton == Range(data[avatar_armature].bones)

RECURSIVE SumWeights(_, _)
SumWeights(groups, i) ==
  IF i > Len(groups) THEN 0 ELSE groups[i].weight + SumWeights(groups, i + 1)

\* mapping[X] when X is a key, X otherwise.
Mapped(name) == IF name \in DOMAIN bone_mapping THEN bone_mapping[name] ELSE name

HasCostumeArmature == costume_armature # None

\* The objects of the exported file, once it is written.
Exported == result_file[1]

\* What a run leaves behind: the scene, the selection and the exported file.
Outcome(s) ==
  [pc |-> s.pc, data |-> s.data, selected_objects |-> s.selected_objects,
   active |-> s.active, result_file |-> s.result_file]

\* The state right after the two files were loaded, rebuilt from the inputs the
\* run keeps, with the settings file replaced by settings_json.
Reloaded(settings_json) ==
  [State EXCEPT !.pc = "process_mapping",
                !.data = [o \in DOMAIN avatar_file \cup DOMAIN costume_file |->
                            IF o \in DOMAIN costume_file THEN costume_file[o]
                            ELSE avatar_file[o]],
                !.selected_objects = DOMAIN costume_file,
                !.active = None,
                !.settings = settings_json,
                !.bone_mapping = NoObjects,
                !.global_scale = 1,
                !.adjust_scale = TRUE,
                !.redistribute_weights = TRUE,
                !.mesh_idx = 1,
                !.result_file = <<>>]

\* The step function composed by Run is the one the actions take: a completed run
\* ends where Run says the loaded state ends.
RunMatchesScript == pc = "done" => Outcome(State) = Outcome(Run(Reloaded(settings)))

\* ---------------------------------------------------------------- claims

\* C1: after a run that completes, every influence (vertex group) of every costume
\* mesh names a bone of the avatar skeleton.
C1_InfluencesNameAvatarBones ==
  pc = "done" =>
    \A j \in MeshIndices : \A i \in DOMAIN Mesh(j).vertex_groups :
      Mesh(j).vertex_groups[i].name \in AvatarSkeleton

\* C2: after remapping, no vertex carries the same avatar bone in two influences:
\* the influences of costume bones mapped to one avatar bone are merged.
C2_NoDuplicateInfluence ==
  pc = "done" =>
    \A j \in MeshIndices : \A i, k \in DOMAIN Mesh(j).vertex_groups :
      (i # k /\ Mesh(j).vertex_groups[i].name \in AvatarSkeleton)
        => Mesh(j).vertex_groups[i].name # Mesh(j).vertex_groups[k].name

\* C3: with redistributeWeights set, the weights of a vertex sum after the run to
\* what they summed to in the costume file, whatever the mapping leaves unmapped.
C3_WeightSumPreserved ==
  (pc = "done" /\ redistribute_weights) =>
    \A j \in MeshIndices :
      SumWeights(Mesh(j).vertex_groups, 1) = SumWeights(AuthoredMesh(j).vertex_groups, 1)

\* C3 witness: a completed run with redistributeWeights set, a costume armature,
\* and a mesh whose vertex has weight on a bone the mapping does not name.
C3_Witness ==
  /\ pc = "done"
  /\ redistribute_weights
  /\ HasCostumeArmature
  /\ \E j \in MeshIndices : \E i \in DOMAIN AuthoredMesh(j).vertex_groups :
       /\ AuthoredMesh(j).vertex_groups[i].name \notin DOMAIN bone_mapping
       /\ AuthoredMesh(j).vertex_groups[i].name \notin AvatarSkeleton
       /\ AuthoredMesh(j).vertex_groups[i].weight > 0

\* The avatar file held objects but no armature.
AvatarLacksArmature ==
  /\ DOMAIN avatar_file # {}
  /\ \A o \in DOMAIN avatar_file : avatar_file[o].type # "ARMATURE"

CostumeLacksArmature ==
  /\ DOMAIN costume_file # {}
  /\ \A o \in DOMAIN costume_file : costume_file[o].type # "ARMATURE"

CostumeLacksMeshes ==
  /\ DOMAIN costume_file # {}
  /\ \A o \in DOMAIN costume_file : costume_file[o].type # "MESH"

\* Nothing was exported and every object is as the importer left it.
Untouched ==
  /\ result_file = <<>>
  /\ \A o \in DOMAIN data :
       data[o] = IF o \in DOMAIN costume_file THEN costume_file[o] ELSE avatar_file[o]

\* C4 as stated: an avatar or a costume without armature aborts the run before
\* anything is mutated or exported.
C4_MissingSkeletonAborts ==
  (AvatarLacksArmature \/ CostumeLacksArmature) => (~Reached("load") /\ Untouched)

\* C4 amended: the run aborts, with nothing mutated or exported, when the avatar
\* has no armature or the costume has neither an armature nor a mesh; a costume
\* of meshes without armature is processed.
C4_MissingContentAborts ==
  /\ (AvatarLacksArmature \/ (CostumeLacksArmature /\ CostumeLacksMeshes))
       => (~Reached("load") /\ Untouched)
  /\ Reached("load") => (avatar_armature # None
                          /\ (costume_armature # None \/ costume_meshes # <<>>))

\* C4 witness: the run was aborted for a costume that holds neither.
C4_Witness ==
  /\ pc = "exit"
  /\ CostumeLacksArmature
  /\ CostumeLacksMeshes
  /\ avatar_armature # None

\* C5: after a run that completes, every costume mesh has exactly one armature
\* modifier, and it names the avatar armature.
C5_OneSkinningSkeleton ==
  pc = "done" =>
    \A j \in MeshIndices :
      /\ Cardinality({i \in DOMAIN Mesh(j).modifiers :
                        Mesh(j).modifiers[i].type = "ARMATURE"}) = 1
      /\ \A i \in DOMAIN Mesh(j).modifiers :
           Mesh(j).modifiers[i].type = "ARMATURE" =>
             Mesh(j).modifiers[i].object = avatar_armature

\* The scale is to be applied in this run.
Scaling == ScaleApplies(adjust_scale, global_scale) /\ Reached("costume_armature")

\* C6 as stated: the scale of every mesh is applied before the groups of any mesh
\* are renamed, and the groups of every mesh are renamed before any mesh is
\* rebound or parented to the avatar.
C6_StagesInStrictOrder ==
  \A j, k \in MeshIndices :
    /\ (Scaling /\ HasCostumeArmature /\ BodyDone(j, "mesh_vertex_groups"))
         => BodyDone(k, "mesh_scale")
    /\ (HasCostumeArmature
        /\ (BodyDone(j, "mesh_modifiers") \/ BodyDone(j, "mesh_parent")))
         => BodyDone(k, "mesh_vertex_groups")

GroupsRenamed(j) ==
  Mesh(j).vertex_groups = RenameGroupsFrom(AuthoredMesh(j).vertex_groups, bone_mapping, 1)

ModifiersSwitched(j) ==
  Mesh(j).modifiers = SwitchModifiers(AuthoredMesh(j).modifiers, costume_armature, avatar_armature)

Parented(j) == Mesh(j).parent = avatar_armature

ArmatureRemoved == HasCostumeArmature /\ costume_armature \notin DOMAIN data

\* The costume armature is in the state its own block leaves it in.
ArmatureProcessed ==
  costume_armature \in DOMAIN data =>
    /\ data[costume_armature].bones =
         RenameBonesFrom(costume_file[costume_armature].bones, bone_mapping, 1)
    /\ Scaling => data[costume_armature].scale = global_scale

\* C6 amended: the costume armature is processed first (bones renamed, then
\* scaled); then the meshes one at a time, each in the order modifier switch,
\* group rename, parenting, scale; the costume armature is removed after the
\* last mesh, and the export comes last.
C6_PerMeshOrder ==
  /\ \A j \in MeshIndices :
       /\ (HasCostumeArmature /\ Parented(j)) =>
            (ModifiersSwitched(j) /\ GroupsRenamed(j) /\ ArmatureProcessed)
       /\ (Scaling /\ Mesh(j).scale # AuthoredMesh(j).scale) => Parented(j)
       /\ \A k \in MeshIndices :
            (k < j /\ Mesh(j) # AuthoredMesh(j)) =>
              (Parented(k) /\ (Scaling => Mesh(k).scale = global_scale))
  /\ ArmatureRemoved =>
       \A j \in MeshIndices :
         Parented(j) /\ GroupsRenamed(j) /\ (Scaling => Mesh(j).scale = global_scale)
  /\ result_file # <<>> => (HasCostumeArmature => ArmatureRemoved)

\* C6 witness: the second mesh's groups are still to be renamed while the first
\* mesh is already parented to the avatar and scaled.
C6_Witness ==
  /\ pc = "mesh_vertex_groups"
  /\ mesh_idx = 2
  /\ HasCostumeArmature
  /\ Scaling
  /\ Parented(1)
  /\ Mesh(1).scale = global_scale
  /\ ~GroupsRenamed(2)

\* C7: a completed run exports exactly the avatar armature, as imported, and the
\* costume meshes, each parented to it; the costume armature is gone, and it is
\* removed only once the groups of every mesh are renamed.
C7_ExportedResult ==
  /\ pc = "done" =>
       /\ DOMAIN Exported = {avatar_armature} \cup Range(costume_meshes)
       /\ Exported[avatar_armature] = avatar_file[avatar_armature]
       /\ \A j \in MeshIndices : Exported[costume_meshes[j]].parent = avatar_armature
       /\ \A o \in DOMAIN costume_file :
            costume_file[o].type = "ARMATURE" => o \notin DOMAIN data
  /\ ArmatureRemoved =>
       \A j \in MeshIndices : BodyDone(j, "mesh_vertex_groups") /\ GroupsRenamed(j)

\* C7 witness: a completed run of a costume with an armature and two meshes,
\* beside an avatar that has a body mesh of its own.
C7_Witness ==
  /\ pc = "done"
  /\ ~CostumeLacksArmature
  /\ Len(costume_meshes) >= 2
  /\ "AvatarBody" \in DOMAIN data
  /\ \E j \in MeshIndices : Mesh(j).vertex_groups # AuthoredMesh(j).vertex_groups

\* C8: an entry whose avatar bone is not in the avatar skeleton is never applied:
\* it is not in the mapping in use, and no bone and no group takes such a name.
C8_DanglingEntryDropped ==
  Reached("costume_armature") =>
    /\ \A c \in DOMAIN bone_mapping : bone_mapping[c] \in AvatarSkeleton
    /\ costume_armature \in DOMAIN data =>
         \A i \in DOMAIN data[costume_armature].bones :
           data[costume_armature].bones[i] # costume_file[costume_armature].bones[i]
             => data[costume_armature].bones[i] \in AvatarSkeleton
    /\ \A j \in MeshIndices : \A i \in DOMAIN Mesh(j).vertex_groups :
         Mesh(j).vertex_groups[i].name # AuthoredMesh(j).vertex_groups[i].name
           => Mesh(j).vertex_groups[i].name \in AvatarSkeleton

\* The settings file with the two scale settings replaced.
WithScaleSettings(g, a) ==
  [k \in DOMAIN settings \cup {"globalScale", "adjustScale"} |->
     IF k = "globalScale" THEN g ELSE IF k = "adjustScale" THEN a ELSE settings[k]]

\* C9: a run with globalScale = 1.0 and adjustScale = true ends in the scene,
\* selection and exported file that the run of the same inputs with
\* adjustScale = false ends in, whatever globalScale that run is given.
C9_UnitScaleIsNoOp ==
  (pc = "done" /\ adjust_scale /\ global_scale = 1) =>
    \A g \in GlobalScales :
      Outcome(State) = Outcome(Run(Reloaded(WithScaleSettings(g, FALSE))))

\* C9 witness: a completed run with globalScale 1 and adjustScale set that
\* exported a mesh whose scale is not 1.
C9_Witness ==
  /\ pc = "done"
  /\ adjust_scale
  /\ global_scale = 1
  /\ \E j \in MeshIndices : Exported[costume_meshes[j]].scale # 1

====
